---------------------------- MODULE Spec2Model ----------------------------
(***************************************************************************)
(* A model of xcur-rs' parser (src/src/parser.rs): File::parse and the    *)
(* decoders it calls (Header, TableOfContents, ChunkHeader, Comment,      *)
(* Image), on little-endian targets.                                       *)
(*                                                                         *)
(* The input is a byte buffer.  A CARD32 is held as the pair <<hi, lo>> of *)
(* its 16-bit halves (0xFFFE0001 is <<65534, 1>>), because a 32-bit       *)
(* unsigned value does not fit the model checker's integers; every        *)
(* comparison and the wrapping product are defined on that pair.          *)
(*                                                                         *)
(* File::parse is followed step by step: the header, one step per         *)
(* iteration of the TOC loop, one step per TOC entry of the dispatch loop, *)
(* and, inside Image::parse, one step per iteration of the pixel loop.    *)
(***************************************************************************)
EXTENDS Integers, Sequences, FiniteSets, TLC

\* -------------------------------------------------------------------------
\* CARD32 values
\* -------------------------------------------------------------------------

Half == 256 * 256

W(hi, lo) == <<hi, lo>>
Hi(w) == w[1]
Lo(w) == w[2]

\* A natural number below 2^31 as a CARD32 (`n as u32`, `n: u32` literals).
FromNat(n) == W(n \div Half, n % Half)

\* a < b, a >= b, a > b on CARD32
WLt(a, b) == Hi(a) < Hi(b) \/ (Hi(a) = Hi(b) /\ Lo(a) < Lo(b))
WGe(a, b) == ~WLt(a, b)
WGt(a, b) == WLt(b, a)

\* `w as usize` compared with a length of the buffer (lengths are < 2^31).
WGtNat(w, n) == WGt(w, FromNat(n))
NatLtW(n, w) == WLt(FromNat(n), w)

\* `w as usize`, for a w that is known not to exceed a buffer length.
ToNat(w) == Hi(w) * Half + Lo(w)

\* The four bytes of a CARD32, least significant first.
Limbs(w) == <<Lo(w) % 256, Lo(w) \div 256, Hi(w) % 256, Hi(w) \div 256>>

\* Column k (0-based) of the schoolbook product of two 4-limb numbers.
MulColumn(a, b, k) ==
    LET idx == {n \in 0..3 : k - n \in 0..3}
        term(n) == a[n + 1] * b[k - n + 1]
        RECURSIVE Sum(_)
        Sum(S) == IF S = {} THEN 0
                  ELSE LET n == CHOOSE x \in S : TRUE
                       IN term(n) + Sum(S \ {n})
    IN Sum(idx)

\* u32 `a * b`: the product modulo 2^32, and whether the true product
\* exceeds the 32 bits (what an overflow-checking build panics on).
U32Mul(a, b) ==
    LET x  == Limbs(a)
        y  == Limbs(b)
        t0 == MulColumn(x, y, 0)
        t1 == MulColumn(x, y, 1) + t0 \div 256
        t2 == MulColumn(x, y, 2) + t1 \div 256
        t3 == MulColumn(x, y, 3) + t2 \div 256
        t4 == MulColumn(x, y, 4) + t3 \div 256
    IN [wrapped  |-> W((t3 % 256) * 256 + (t2 % 256), (t1 % 256) * 256 + (t0 % 256)),
        overflow |-> t4 # 0 \/ MulColumn(x, y, 5) # 0 \/ MulColumn(x, y, 6) # 0]

\* -------------------------------------------------------------------------
\* The input buffer `i: &[u8]`
\* -------------------------------------------------------------------------
\* A buffer is the bytes `head` followed by `fill` zero bytes (a long run of
\* pixels is not written out).  Offsets are 0-based as in the source.

Buf(head, fill) == [head |-> head, fill |-> fill]
BufLen(b) == Len(b.head) + b.fill
ByteAt(b, k) == IF k < Len(b.head) THEN b.head[k + 1] ELSE 0

\* A slice `&i[s..]` is the pair of the buffer and its start s.
\* Indexing `&i[s..]` panics when s > i.len().
SliceOutOfRange(b, s) == s > BufLen(b)

\* -------------------------------------------------------------------------
\* Primitive reader and the nom combinators
\* -------------------------------------------------------------------------

Incomplete == [ok |-> FALSE]
ParseDone(rest, val) == [ok |-> TRUE, rest |-> rest, val |-> val]

\* le_u32 on the slice b[s..]: four bytes, least significant first.
card32(b, s) ==
    IF BufLen(b) - s < 4 THEN Incomplete
    ELSE ParseDone(s + 4,
                   W(ByteAt(b, s + 2) + 256 * ByteAt(b, s + 3),
                     ByteAt(b, s)     + 256 * ByteAt(b, s + 1)))

\* chain!(card32 ~ card32 ~ ...), n parsers: each runs on what the previous
\* one left, and the first failure is the chain's result.
RECURSIVE Chain(_, _, _)
Chain(b, s, n) ==
    IF n = 0 THEN ParseDone(s, <<>>)
    ELSE LET r == card32(b, s)
         IN IF ~r.ok THEN Incomplete
            ELSE LET t == Chain(b, r.rest, n - 1)
                 IN IF ~t.ok THEN Incomplete
                    ELSE ParseDone(t.rest, <<r.val>> \o t.val)

\* take!(length) on b[s..]: the next `length` bytes.
Take(b, s, length) ==
    IF WGtNat(length, BufLen(b) - s) THEN Incomplete
    ELSE ParseDone(s + ToNat(length),
                   [k \in 1..ToNat(length) |-> ByteAt(b, s + k - 1)])

\* -------------------------------------------------------------------------
\* Header
\* -------------------------------------------------------------------------

HEADER_SIZE == 12

\* 0x72756358, the bytes "Xcur" read least significant first
MAGIC == W(29301, 25432)

Header_parse(b, s) ==
    LET r == Chain(b, s, 4)
    IN IF ~r.ok THEN Incomplete
       ELSE ParseDone(r.rest, [magic   |-> r.val[1], header |-> r.val[2],
                               version |-> r.val[3], ntoc   |-> r.val[4]])

\* Header_validate, comparing the low 16 bits of the magic only.
Header_validate_LowHalf(h) == ~(Lo(h.magic) # Lo(MAGIC))

\* Ok(()) is TRUE, Err("Invalid magic bytes") is FALSE
Header_validate(h) == ~(h.magic # MAGIC)

\* -------------------------------------------------------------------------
\* TableOfContents, ChunkHeader
\* -------------------------------------------------------------------------

TABLE_OF_CONTENTS_SIZE == 12

TableOfContents_parse(b, s) ==
    LET r == Chain(b, s, 3)
    IN IF ~r.ok THEN Incomplete
       ELSE ParseDone(r.rest, [type_ |-> r.val[1], subtype |-> r.val[2],
                               position |-> r.val[3]])

ChunkHeader_parse(b, s) ==
    LET r == Chain(b, s, 4)
    IN IF ~r.ok THEN Incomplete
       ELSE ParseDone(r.rest, [header  |-> r.val[1], type_   |-> r.val[2],
                               subtype |-> r.val[3], version |-> r.val[4]])

\* -------------------------------------------------------------------------
\* Comment
\* -------------------------------------------------------------------------

\* 0xFFFE0001
COMMENT_TYPE == W(65534, 1)
COMMENT_VERSION == 1

\* A continuation byte 10xxxxxx.
Cont(x) == x \in 128..191

\* String::from_utf8 accepts exactly the well-formed UTF-8 byte sequences:
\* no stray or missing continuation bytes, no overlong forms, no surrogates,
\* nothing above U+10FFFF.
RECURSIVE Utf8Valid(_)
Utf8Valid(bytes) ==
    LET n == Len(bytes)
        Rest(k) == SubSeq(bytes, k + 1, n)
    IN IF n = 0 THEN TRUE
       ELSE LET b1 == bytes[1]
            IN CASE b1 \in 0..127 -> Utf8Valid(Rest(1))
                 [] b1 \in 194..223 ->
                      n >= 2 /\ Cont(bytes[2]) /\ Utf8Valid(Rest(2))
                 [] b1 \in 224..239 ->
                      /\ n >= 3
                      /\ bytes[2] \in (IF b1 = 224 THEN 160..191
                                       ELSE IF b1 = 237 THEN 128..159
                                       ELSE 128..191)
                      /\ Cont(bytes[3])
                      /\ Utf8Valid(Rest(3))
                 [] b1 \in 240..244 ->
                      /\ n >= 4
                      /\ bytes[2] \in (IF b1 = 240 THEN 144..191
                                       ELSE IF b1 = 244 THEN 128..143
                                       ELSE 128..191)
                      /\ Cont(bytes[3])
                      /\ Cont(bytes[4])
                      /\ Utf8Valid(Rest(4))
                 [] OTHER -> FALSE

\* StringOrEmpty, keeping the bytes unchecked (String::from_utf8_unchecked).
StringOrEmpty_Unchecked(bytes) == bytes

\* String::from_utf8(string.to_vec()).unwrap_or_else(|_| String::new());
\* a String is held as its UTF-8 bytes.
StringOrEmpty(bytes) == IF Utf8Valid(bytes) THEN bytes ELSE <<>>

Comment_parse(b, s) ==
    LET r1 == ChunkHeader_parse(b, s)
    IN IF ~r1.ok THEN Incomplete
       ELSE LET r2 == card32(b, r1.rest)
            IN IF ~r2.ok THEN Incomplete
               ELSE LET r3 == Take(b, r2.rest, r2.val)
                    IN IF ~r3.ok THEN Incomplete
                       ELSE ParseDone(r3.rest,
                                      [chunkheader |-> r1.val,
                                       length      |-> r2.val,
                                       string      |-> StringOrEmpty(r3.val)])

\* -------------------------------------------------------------------------
\* Image
\* -------------------------------------------------------------------------

\* 0xFFFD0002
IMAGE_TYPE == W(65533, 2)
IMAGE_VERSION == 1
\* 0x7FFF
IMAGE_MAX_SIZE == 32767

\* The reads that open Image::parse: the chunk header, then width, height,
\* xhot, yhot and delay, each on what the previous read left.
Image_fields(b, s) ==
    LET r1 == ChunkHeader_parse(b, s)
    IN IF ~r1.ok THEN Incomplete
       ELSE LET r == Chain(b, r1.rest, 5)
            IN IF ~r.ok THEN Incomplete
               ELSE ParseDone(r.rest,
                              [chunkheader |-> r1.val,
                               width |-> r.val[1], height |-> r.val[2],
                               xhot  |-> r.val[3], yhot   |-> r.val[4],
                               delay |-> r.val[5]])

\* Where the pixel loop starts reading, relative to the chunk's start.
PIXELS_START == 24

\* size_of::<CARD32>()
CARD32_SIZE == 4

\* Image_validate, with `>` for `>=` in the xhot check.
Image_validate_XHotGt(image) ==
    IF image.chunkheader.version # FromNat(IMAGE_VERSION) THEN "InvalidImageVersion"
    ELSE IF WGe(image.width, FromNat(IMAGE_MAX_SIZE)) THEN "InvalidImageWidth"
    ELSE IF WGe(image.height, FromNat(IMAGE_MAX_SIZE)) THEN "InvalidImageHeight"
    ELSE IF WGt(image.xhot, image.width) THEN "InvalidImageXHot"
    ELSE IF WGe(image.yhot, image.height) THEN "InvalidImageYHot"
    ELSE "Ok"

\* Image_validate, with `>` for `>=` in the width check.
Image_validate_WidthGt(image) ==
    IF image.chunkheader.version # FromNat(IMAGE_VERSION) THEN "InvalidImageVersion"
    ELSE IF WGt(image.width, FromNat(IMAGE_MAX_SIZE)) THEN "InvalidImageWidth"
    ELSE IF WGe(image.height, FromNat(IMAGE_MAX_SIZE)) THEN "InvalidImageHeight"
    ELSE IF WGe(image.xhot, image.width) THEN "InvalidImageXHot"
    ELSE IF WGe(image.yhot, image.height) THEN "InvalidImageYHot"
    ELSE "Ok"

\* The checks File::parse makes on a decoded image, in order; "Ok" when the
\* image is pushed.
Image_validate(image) ==
    IF image.chunkheader.version # FromNat(IMAGE_VERSION) THEN "InvalidImageVersion"
    ELSE IF WGe(image.width, FromNat(IMAGE_MAX_SIZE)) THEN "InvalidImageWidth"
    ELSE IF WGe(image.height, FromNat(IMAGE_MAX_SIZE)) THEN "InvalidImageHeight"
    ELSE IF WGe(image.xhot, image.width) THEN "InvalidImageXHot"
    ELSE IF WGe(image.yhot, image.height) THEN "InvalidImageYHot"
    ELSE "Ok"

\* The check File::parse makes on a decoded comment.
Comment_validate(comment) ==
    IF comment.chunkheader.version # FromNat(COMMENT_VERSION) THEN "InvalidCommentVersion"
    ELSE "Ok"

\* Push, inserting at the front (Vec::insert(0, x)).
Push_Front(v, x) == <<x>> \o v

\* Vec::push
Push(v, x) == Append(v, x)

\* -------------------------------------------------------------------------
\* File::parse
\* -------------------------------------------------------------------------

VARIABLES
    i,                \* the input buffer
    overflow_checks,  \* the build: TRUE when u32 overflow panics (debug)
    pc,               \* where File::parse is, or where it returned
    header,           \* the parsed Header
    tocs,             \* Vec<TableOfContents>
    toc_count,        \* offset of the next TOC entry
    toc_idx,          \* `for toc in tocs`: 1-based index of the current entry
    comments,         \* Vec<Comment>
    images,           \* Vec<Image>
    frame,            \* the locals of the running Image::parse
    result            \* what File::parse returned, "Running" until it does

vars == <<i, overflow_checks, pc, header, tocs, toc_count, toc_idx,
          comments, images, frame, result>>

Zero == W(0, 0)

Running       == [kind |-> "Running",    err |-> ""]
\* IResult::Done(i, File {comments, images})
ResDone       == [kind |-> "Done",       err |-> ""]
\* IResult::Incomplete(_), from a read that found too few bytes
ResIncomplete == [kind |-> "Incomplete", err |-> ""]
\* IResult::Error(Err::Code(ErrorKind::Custom(e)))
ResError(e)   == [kind |-> "Error",      err |-> e]
\* the thread panics: File::parse does not return
ResPanic(e)   == [kind |-> "Panic",      err |-> e]

SLICE_PANIC    == "slice index starts past the end of the slice"
OVERFLOW_PANIC == "attempt to multiply with overflow"

NoHeader == [magic |-> Zero, header |-> Zero, version |-> Zero, ntoc |-> Zero]
NoFields == [chunkheader |-> [header |-> Zero, type_ |-> Zero,
                              subtype |-> Zero, version |-> Zero],
             width |-> Zero, height |-> Zero, xhot |-> Zero, yhot |-> Zero,
             delay |-> Zero]
NoFrame  == [base |-> 0, fields |-> NoFields, npix |-> Zero,
             pixels |-> <<>>, count |-> 0]

\* File::parse returns r (or panics) where it is.
Return(r) ==
    /\ result' = r
    /\ UNCHANGED <<i, overflow_checks, pc, header, tocs, toc_count, toc_idx,
                   comments, images, frame>>

\* Header::parse, header.validate(), and the set-up of the TOC loop.
\* Vec::with_capacity (here of header.ntoc entries, in Image::parse of
\* width * height pixels) only reserves memory: it is taken to succeed.
ParseHeader ==
    /\ pc = "start" /\ result = Running
    /\ LET r == Header_parse(i, 0)
       IN IF ~r.ok THEN Return(ResIncomplete)
          ELSE IF ~Header_validate(r.val) THEN Return(ResError("InvalidHeader"))
          ELSE /\ header' = r.val
               /\ tocs' = <<>>
               /\ toc_count' = HEADER_SIZE + 4
               /\ pc' = "toc_loop"
               /\ UNCHANGED <<i, overflow_checks, toc_idx, comments, images,
                              frame, result>>

\* One iteration of `for _ in 0..header.ntoc`.
TocStep ==
    /\ pc = "toc_loop" /\ result = Running
    /\ NatLtW(Len(tocs), header.ntoc)
    /\ IF SliceOutOfRange(i, toc_count) THEN Return(ResPanic(SLICE_PANIC))
       ELSE LET r == TableOfContents_parse(i, toc_count)
            IN IF ~r.ok THEN Return(ResIncomplete)
               ELSE /\ tocs' = Push(tocs, r.val)
                    /\ toc_count' = toc_count + TABLE_OF_CONTENTS_SIZE
                    /\ UNCHANGED <<i, overflow_checks, pc, header, toc_idx,
                                   comments, images, frame, result>>

\* The TOC loop ends; comments and images start empty.
TocDone ==
    /\ pc = "toc_loop" /\ result = Running
    /\ ~NatLtW(Len(tocs), header.ntoc)
    /\ comments' = <<>>
    /\ images' = <<>>
    /\ toc_idx' = 1
    /\ pc' = "chunks"
    /\ UNCHANGED <<i, overflow_checks, header, tocs, toc_count, frame, result>>

\* Dispatch, with the image arm as the catch-all.
Dispatch_Lenient(type_) ==
    IF type_ = COMMENT_TYPE THEN "comment" ELSE "image"

\* The arm of `match toc.type_` that an entry takes.
Dispatch(type_) ==
    IF type_ = COMMENT_TYPE THEN "comment"
    ELSE IF type_ = IMAGE_TYPE THEN "image"
    ELSE "invalid"

AtEntry(arm) ==
    /\ pc = "chunks" /\ result = Running
    /\ toc_idx <= Len(tocs)
    /\ Dispatch(tocs[toc_idx].type_) = arm

\* COMMENT_TYPE: Comment::parse at the entry's position, the version check,
\* the push.
DispatchComment ==
    /\ AtEntry("comment")
    /\ LET position == tocs[toc_idx].position
       IN IF WGtNat(position, BufLen(i)) THEN Return(ResPanic(SLICE_PANIC))
          ELSE LET r == Comment_parse(i, ToNat(position))
               IN IF ~r.ok THEN Return(ResIncomplete)
                  ELSE IF Comment_validate(r.val) # "Ok"
                       THEN Return(ResError(Comment_validate(r.val)))
                  ELSE /\ comments' = Push(comments, r.val)
                       /\ toc_idx' = toc_idx + 1
                       /\ UNCHANGED <<i, overflow_checks, pc, header, tocs,
                                      toc_count, images, frame, result>>

\* IMAGE_TYPE: Image::parse is entered at the entry's position; it reads the
\* chunk header and the five fields, computes width * height and sets up
\* the pixel loop.
ImageBegin ==
    /\ AtEntry("image")
    /\ LET position == tocs[toc_idx].position
       IN IF WGtNat(position, BufLen(i)) THEN Return(ResPanic(SLICE_PANIC))
          ELSE LET r == Image_fields(i, ToNat(position))
               IN IF ~r.ok THEN Return(ResIncomplete)
                  ELSE LET m == U32Mul(r.val.width, r.val.height)
                       IN IF overflow_checks /\ m.overflow
                          THEN Return(ResPanic(OVERFLOW_PANIC))
                          ELSE /\ frame' = [base   |-> ToNat(position),
                                            fields |-> r.val,
                                            npix   |-> m.wrapped,
                                            pixels |-> <<>>,
                                            count  |-> PIXELS_START]
                               /\ pc' = "pixel_loop"
                               /\ UNCHANGED <<i, overflow_checks, header, tocs,
                                              toc_count, toc_idx, comments,
                                              images, result>>

\* One iteration of `for _ in 0..width * height` in Image::parse.  The slice
\* Image::parse works on is i[frame.base..].
PixelStep ==
    /\ pc = "pixel_loop" /\ result = Running
    /\ NatLtW(Len(frame.pixels), frame.npix)
    /\ IF frame.count > BufLen(i) - frame.base THEN Return(ResPanic(SLICE_PANIC))
       ELSE LET r == card32(i, frame.base + frame.count)
            IN IF ~r.ok THEN Return(ResIncomplete)
               ELSE /\ frame' = [frame EXCEPT
                                   !.pixels = Push(frame.pixels, r.val),
                                   !.count  = frame.count + CARD32_SIZE]
                    /\ UNCHANGED <<i, overflow_checks, pc, header, tocs,
                                   toc_count, toc_idx, comments, images, result>>

\* The Image that Image::parse returns.
ImageOf(f) ==
    [chunkheader |-> f.fields.chunkheader,
     width |-> f.fields.width, height |-> f.fields.height,
     xhot  |-> f.fields.xhot,  yhot   |-> f.fields.yhot,
     delay |-> f.fields.delay, pixels |-> f.pixels]

\* The pixel loop ends: Image::parse returns the image, File::parse checks
\* it and pushes it.
ImageEnd ==
    /\ pc = "pixel_loop" /\ result = Running
    /\ ~NatLtW(Len(frame.pixels), frame.npix)
    /\ LET image == ImageOf(frame)
       IN IF Image_validate(image) # "Ok"
          THEN Return(ResError(Image_validate(image)))
          ELSE /\ images' = Push(images, image)
               /\ toc_idx' = toc_idx + 1
               /\ frame' = NoFrame
               /\ pc' = "chunks"
               /\ UNCHANGED <<i, overflow_checks, header, tocs, toc_count,
                              comments, result>>

\* Any other type tag.
DispatchInvalid ==
    /\ AtEntry("invalid")
    /\ Return(ResError("InvalidTOC"))

\* Every entry was decoded: IResult::Done(i, File {comments, images}).
Finish ==
    /\ pc = "chunks" /\ result = Running
    /\ toc_idx > Len(tocs)
    /\ Return(ResDone)

Next ==
    \/ ParseHeader
    \/ TocStep
    \/ TocDone
    \/ DispatchComment
    \/ ImageBegin
    \/ PixelStep
    \/ ImageEnd
    \/ DispatchInvalid
    \/ Finish

\* -------------------------------------------------------------------------
\* Input buffers
\* -------------------------------------------------------------------------
\* The buffers File::parse is run on are written out field by field in the
\* layout of the file format: a 16-byte header, the TOC, then the chunks
\* (16-byte chunk header, then the body; an image's pixels follow its five
\* fields).  They are then cut short, given a wrong magic, a wrong entry
\* count, or positions that point elsewhere.

\* Most TOC entries a generated file has.
MaxToc == 2

RECURSIVE Flat(_)
Flat(ss) == IF ss = <<>> THEN <<>> ELSE Head(ss) \o Flat(Tail(ss))

\* The bytes of a CARD32 in the file, and of a sequence of them.
LE(w) == Limbs(w)
LEs(ws) == Flat([k \in 1..Len(ws) |-> LE(ws[k])])

MAX32 == W(65535, 65535)

CommentBlob(type_, subtype, version, length, payload) ==
    LEs(<<FromNat(20), type_, subtype, version, length>>) \o payload

ImageBlob(type_, subtype, version, width, height, xhot, yhot, delay, pixels) ==
    LEs(<<FromNat(36), type_, subtype, version,
          width, height, xhot, yhot, delay>>) \o LEs(pixels)

\* The k-th pixel value written to a file; delay is 50 in every image, so no
\* pixel equals a field of its image.
Px(k) == W(43520 + k, 48128 + k)
Pxs(n) == [k \in 1..n |-> Px(k)]

\* A TOC entry and the chunk it refers to.  posmode "blob": the position is
\* where the chunk is; "end": the length of the whole file; "past": one more;
\* "zero": 0; "max": 0xFFFFFFFF.
Entry(type_, subtype, posmode, blob) ==
    [type_ |-> type_, subtype |-> subtype, posmode |-> posmode, blob |-> blob]

Cmt(version, length, payload) ==
    Entry(COMMENT_TYPE, FromNat(1), "blob",
          CommentBlob(COMMENT_TYPE, FromNat(1), FromNat(version), length, payload))

Img(version, width, height, xhot, yhot, npixels) ==
    Entry(IMAGE_TYPE, width, "blob",
          ImageBlob(IMAGE_TYPE, width, FromNat(version), width, height,
                    xhot, yhot, FromNat(50), Pxs(npixels)))

ImgN(width, height, xhot, yhot, npixels) ==
    Img(1, FromNat(width), FromNat(height), FromNat(xhot), FromNat(yhot), npixels)

GoodComment   == Cmt(1, FromNat(1), <<97>>)
BadUtf8       == Cmt(1, FromNat(1), <<255>>)
BadVersionCmt == Cmt(2, FromNat(1), <<97>>)
Image1x1      == ImgN(1, 1, 0, 0, 1)
Image2x2      == ImgN(2, 2, 1, 1, 4)
ImageXHotEq   == ImgN(2, 1, 2, 0, 2)
UnknownType   == Entry(Zero, FromNat(1), "blob", <<>>)
ImagePast     == Entry(IMAGE_TYPE, FromNat(1), "past", <<>>)

\* The entries that files of several entries are made of.
SmallCatalog ==
    {GoodComment, BadUtf8, BadVersionCmt, Image1x1, Image2x2, ImageXHotEq,
     UnknownType, ImagePast}

Comments ==
    {GoodComment, BadUtf8, BadVersionCmt,
     Cmt(1, Zero, <<>>),
     Cmt(1, FromNat(2), <<195, 169>>),
     Cmt(1, FromNat(3), <<237, 160, 128>>),
     Cmt(1, FromNat(2), <<97, 195>>),
     Cmt(1, FromNat(4), <<240, 159, 152, 128>>),
     Cmt(1, FromNat(2), <<192, 128>>),
     Cmt(1, FromNat(3), <<224, 128, 128>>),
     Cmt(1, FromNat(4), <<244, 144, 128, 128>>),
     Cmt(1, FromNat(5), <<104, 101, 108, 108, 111>>),
     Cmt(0, FromNat(1), <<97>>),
     Cmt(1, MAX32, <<>>),
     \* the chunk's own header names another type, or another subtype
     Entry(COMMENT_TYPE, FromNat(1), "blob",
           CommentBlob(IMAGE_TYPE, FromNat(1), FromNat(1), FromNat(1), <<97>>)),
     Entry(COMMENT_TYPE, FromNat(1), "blob",
           CommentBlob(COMMENT_TYPE, FromNat(2), FromNat(1), FromNat(1), <<97>>))}

Images ==
    {Image1x1, Image2x2, ImageXHotEq,
     ImgN(2, 1, 1, 0, 2),
     ImgN(1, 2, 0, 1, 2),
     ImgN(1, 2, 0, 2, 2),
     ImgN(0, 0, 0, 0, 0),
     ImgN(1, 0, 0, 0, 0),
     ImgN(3, 1, 2, 0, 3),
     Img(2, FromNat(1), FromNat(1), Zero, Zero, 1),
     Img(1, FromNat(1), FromNat(1), MAX32, Zero, 1),
     \* a size at the bound, with three of its pixels
     ImgN(IMAGE_MAX_SIZE, 1, 0, 0, 3),
     ImgN(1, IMAGE_MAX_SIZE, 0, 0, 3),
     \* width * height is 2^32, 2^32 and 2^32 + 2
     Img(1, W(1, 0), W(1, 0), Zero, Zero, 0),
     Img(1, W(0, 32768), W(2, 0), Zero, Zero, 0),
     Img(1, FromNat(3), W(21845, 21846), Zero, Zero, 2),
     \* a width at the bound, and width * height is 2^32 + 0x7FFB
     Img(1, FromNat(IMAGE_MAX_SIZE), W(2, 5), Zero, Zero, 2),
     \* the chunk's own header names another type, or another subtype
     Entry(IMAGE_TYPE, FromNat(1), "blob",
           ImageBlob(COMMENT_TYPE, FromNat(1), FromNat(1), FromNat(1), FromNat(1),
                     Zero, Zero, FromNat(50), Pxs(1))),
     Entry(IMAGE_TYPE, FromNat(1), "blob",
           ImageBlob(IMAGE_TYPE, FromNat(2), FromNat(1), FromNat(1), FromNat(1),
                     Zero, Zero, FromNat(50), Pxs(1)))}

Others ==
    {UnknownType, ImagePast,
     Entry(W(65534, 2), FromNat(1), "blob", <<>>),
     Entry(W(65533, 1), FromNat(1), "past", <<>>),
     Entry(MAX32, FromNat(1), "max", <<>>),
     Entry(IMAGE_TYPE, FromNat(1), "end", <<>>),
     Entry(IMAGE_TYPE, FromNat(1), "max", <<>>),
     Entry(IMAGE_TYPE, FromNat(1), "zero", <<>>),
     Entry(COMMENT_TYPE, FromNat(1), "end", <<>>),
     Entry(COMMENT_TYPE, FromNat(1), "past", <<>>),
     Entry(COMMENT_TYPE, FromNat(1), "max", <<>>),
     Entry(COMMENT_TYPE, FromNat(1), "zero", <<>>)}

Catalog == Comments \cup Images \cup Others

\* The bytes "Xcur".
GoodMagic == <<88, 99, 117, 114>>
\* One byte altered, in each place; all zero; the bytes in reverse.
BadMagics ==
    {[GoodMagic EXCEPT ![k] = (GoodMagic[k] + d) % 256] : k \in 1..4, d \in {1, 128}}
    \cup {<<0, 0, 0, 0>>, <<114, 117, 99, 88>>}

RECURSIVE SumLen(_, _)
SumLen(entries, S) ==
    IF S = {} THEN 0
    ELSE LET k == CHOOSE x \in S : TRUE
         IN Len(entries[k].blob) + SumLen(entries, S \ {k})

\* The file with this magic, this ntoc field and these TOC entries; the
\* chunks follow the TOC in TOC order ("fwd") or in the reverse order ("rev"),
\* and `fill` zero bytes end the file.
MkFile(magic, ntoc, entries, order, fill) ==
    LET n      == Len(entries)
        tocEnd == 16 + 12 * n
        before(k) == IF order = "fwd" THEN 1..(k - 1) ELSE (k + 1)..n
        off(k) == tocEnd + SumLen(entries, before(k))
        total  == tocEnd + SumLen(entries, 1..n) + fill
        position(k) ==
            CASE entries[k].posmode = "blob" -> FromNat(off(k))
              [] entries[k].posmode = "end"  -> FromNat(total)
              [] entries[k].posmode = "past" -> FromNat(total + 1)
              [] entries[k].posmode = "zero" -> Zero
              [] entries[k].posmode = "max"  -> MAX32
        toc == Flat([k \in 1..n |->
                  LEs(<<entries[k].type_, entries[k].subtype, position(k)>>)])
        blobs == Flat([k \in 1..n |->
                  entries[IF order = "fwd" THEN k ELSE n + 1 - k].blob])
    IN Buf(magic \o LEs(<<FromNat(16), W(1, 0), ntoc>>) \o toc \o blobs, fill)

\* The first n bytes of a buffer that has no fill.
Truncated(b, n) == Buf(SubSeq(b.head, 1, n), 0)

\* Files of one entry, and every prefix of each.
OneEntryInputs ==
    UNION {LET f == MkFile(GoodMagic, FromNat(1), <<e>>, "fwd", 0)
           IN {Truncated(f, n) : n \in 0..BufLen(f)} : e \in Catalog}

\* Files of up to MaxToc entries in both chunk orders, with the right entry
\* count, one too many, or 0xFFFFFFFF.
ManyEntryInputs ==
    UNION {{MkFile(GoodMagic, ntoc, es, order, 0) :
              ntoc \in {FromNat(n), FromNat(n + 1), MAX32},
              order \in {"fwd", "rev"},
              es \in [1..n -> SmallCatalog]} : n \in 0..MaxToc}

\* Files with a wrong magic, and every prefix of each.
BadMagicInputs ==
    UNION {LET f == MkFile(m, FromNat(1), <<e>>, "fwd", 0)
           IN {Truncated(f, n) : n \in 0..BufLen(f)} :
              m \in BadMagics, e \in {GoodComment, Image1x1, UnknownType}}

Inputs == OneEntryInputs \cup ManyEntryInputs \cup BadMagicInputs

\* -------------------------------------------------------------------------
\* Specifications
\* -------------------------------------------------------------------------

StartOn(inputs, builds) ==
    /\ i \in inputs
    /\ overflow_checks \in builds
    /\ pc = "start"
    /\ header = NoHeader
    /\ tocs = <<>>
    /\ toc_count = 0
    /\ toc_idx = 0
    /\ comments = <<>>
    /\ images = <<>>
    /\ frame = NoFrame
    /\ result = Running

Init == StartOn(Inputs, BOOLEAN)

Spec == Init /\ [][Next]_vars

\* Images whose sizes are at the bound IMAGE_MAX_SIZE and one below it, with
\* all their pixels (zero bytes) in the buffer: the pixel loop runs to its
\* end on them.  Those of no pixels (the other size is 0) are refused
\* whatever the size at the bound is.
BigImage(width, height) ==
    MkFile(GoodMagic, FromNat(1), <<ImgN(width, height, 0, 0, 0)>>, "fwd",
           4 * width * height)

BoundaryInputs ==
    {BigImage(IMAGE_MAX_SIZE - 1, 1), BigImage(1, IMAGE_MAX_SIZE - 1),
     BigImage(IMAGE_MAX_SIZE, 0), BigImage(0, IMAGE_MAX_SIZE),
     BigImage(IMAGE_MAX_SIZE - 1, 0), BigImage(0, IMAGE_MAX_SIZE - 1)}

\* The files of one entry, whole.
WholeInputs == {MkFile(GoodMagic, FromNat(1), <<e>>, "fwd", 0) : e \in Catalog}

\* width * height does not overflow on the images of BoundaryInputs, so the
\* two builds run alike on them.
InitBoundary ==
    \/ StartOn(BoundaryInputs, {FALSE})
    \/ StartOn(WholeInputs, BOOLEAN)

SpecBoundary == InitBoundary /\ [][Next]_vars

\* -------------------------------------------------------------------------
\* The file format, as the claims read it off the buffer
\* -------------------------------------------------------------------------

\* The 32-bit value stored at absolute offset off.
FileWord(off) ==
    W(ByteAt(i, off + 2) + 256 * ByteAt(i, off + 3),
      ByteAt(i, off)     + 256 * ByteAt(i, off + 1))

\* The buffer has the n bytes from offset off.
Holds(off, n) == off + n <= BufLen(i)

MagicOk     == Holds(0, 4) /\ [k \in 1..4 |-> ByteAt(i, k - 1)] = GoodMagic
HeaderHeld  == Holds(0, 16)
NtocField   == FileWord(12)
\* TOC entry j (1-based) lies in the buffer, and the header counts it.
TocHeld(j)  == Holds(16 + 12 * (j - 1), 12) /\ NatLtW(j - 1, NtocField)
TocType(j)     == FileWord(16 + 12 * (j - 1))
TocSubtype(j)  == FileWord(20 + 12 * (j - 1))
TocPosition(j) == FileWord(24 + 12 * (j - 1))
\* The buffer holds all the entries the header counts.
TocAllHeld ==
    /\ HeaderHeld
    /\ ~WGtNat(NtocField, (BufLen(i) - 16) \div 12)
TocIsComment(j) == TocType(j) = COMMENT_TYPE
TocIsImage(j)   == TocType(j) = IMAGE_TYPE
TocIsKnown(j)   == TocIsComment(j) \/ TocIsImage(j)
\* The entry's position lies in the buffer (or is its end).
PosInside(j)    == ~WGtNat(TocPosition(j), BufLen(i))
Pos(j)          == ToNat(TocPosition(j))

\* A chunk at offset p: header size, type, subtype, version, then the body.
ChunkType(p)    == FileWord(p + 4)
ChunkSubtype(p) == FileWord(p + 8)
ChunkVersion(p) == FileWord(p + 12)
\* Comment body: length, then the bytes.
CmtLength(p)    == FileWord(p + 16)
CmtHeld(p) ==
    /\ Holds(p, 20)
    /\ ~WGtNat(CmtLength(p), BufLen(i) - p - 20)
CmtPayload(p) == [k \in 1..ToNat(CmtLength(p)) |-> ByteAt(i, p + 20 + k - 1)]
\* Image body: width, height, xhot, yhot, delay, then the pixels.
ImgWidth(p)  == FileWord(p + 16)
ImgHeight(p) == FileWord(p + 20)
ImgXHot(p)   == FileWord(p + 24)
ImgYHot(p)   == FileWord(p + 28)
ImgDelay(p)  == FileWord(p + 32)
ImgPixel(p, k) == FileWord(p + 36 + 4 * k)
\* width * height exceeds n.
MorePixelsThan(p, n) ==
    LET m == U32Mul(ImgWidth(p), ImgHeight(p))
    IN m.overflow \/ WGtNat(m.wrapped, n)
\* The buffer holds the 36 bytes before the pixels and all the pixels.
ImgHeld(p) ==
    /\ Holds(p, 36)
    /\ ~MorePixelsThan(p, (BufLen(i) - p - 36) \div 4)

\* File::parse is over: it has returned or panicked ...
Ended == result # Running
\* ... it has returned ...
Returned == result.kind \in {"Done", "Incomplete", "Error"}
\* ... it is over, and was at TOC entry toc_idx.
StoppedAtEntry ==
    /\ Ended
    /\ pc \in {"chunks", "pixel_loop"}
    /\ toc_idx <= Len(tocs)
\* The entries File::parse is through with.
Accepted == IF pc \in {"chunks", "pixel_loop"} THEN 1..(toc_idx - 1) ELSE {}
\* How many of the entries 1..j are comments, are images.
CommentRank(j) == Cardinality({k \in 1..j : TocIsComment(k)})
ImageRank(j)   == Cardinality({k \in 1..j : TocIsImage(k)})

ReadFailure == result = ResIncomplete

\* -------------------------------------------------------------------------
\* C1
\* -------------------------------------------------------------------------

\* C1: when the header counts more TOC entries than the buffer holds, or an
\* image chunk's width * height is more 4-byte pixels than the buffer holds
\* from the chunk's start, File::parse ends with a read failure, and the
\* slice starts of the TOC loop and of the pixel loop never exceed the
\* length of the slice they index.
C1_TruncatedIsReadFailure ==
    /\ pc = "toc_loop" => toc_count <= BufLen(i)
    /\ pc = "pixel_loop" => frame.count <= BufLen(i) - frame.base
    /\ result.kind = "Panic" => result.err # SLICE_PANIC \/ pc = "chunks"
    /\ (Ended /\ MagicOk /\ HeaderHeld /\ ~TocAllHeld) => ReadFailure
    /\ ( /\ StoppedAtEntry
         /\ TocIsImage(toc_idx)
         /\ PosInside(toc_idx)
         /\ Holds(Pos(toc_idx), 24)
         /\ MorePixelsThan(Pos(toc_idx), (BufLen(i) - Pos(toc_idx)) \div 4) )
       => ReadFailure

\* -------------------------------------------------------------------------
\* C2
\* -------------------------------------------------------------------------

\* C2: with a valid header and a fully readable TOC, an entry of a known
\* type whose position lies beyond the end of the buffer makes File::parse
\* return a read failure.
C2_PositionPastEndIsReadFailure ==
    ( /\ StoppedAtEntry
      /\ TocAllHeld
      /\ TocIsKnown(toc_idx)
      /\ ~PosInside(toc_idx) )
    => ReadFailure

\* -------------------------------------------------------------------------
\* C3
\* -------------------------------------------------------------------------

\* C3: every decoded image has width * height pixels, and pixel k is the
\* 32-bit value stored 36 + 4k bytes after the chunk's start.
C3_PixelsFollowTheFields ==
    \A j \in Accepted :
        TocIsImage(j) =>
            LET p  == Pos(j)
                im == images[ImageRank(j)]
                n  == ToNat(ImgWidth(p)) * ToNat(ImgHeight(p))
            IN /\ Len(im.pixels) = n
               /\ \A k \in 0..(n - 1) :
                     Holds(p + 36 + 4 * k, 4) /\ im.pixels[k + 1] = ImgPixel(p, k)

\* -------------------------------------------------------------------------
\* C4
\* -------------------------------------------------------------------------

\* C4 as claimed: a buffer whose first four bytes are not the magic makes
\* File::parse return InvalidHeader, whatever its length.
C4_BadMagicIsInvalidHeader ==
    (Ended /\ Holds(0, 4) /\ ~MagicOk) => result = ResError("InvalidHeader")

\* C4, amended: a buffer of at least 16 bytes whose first four bytes are
\* not the magic makes File::parse return InvalidHeader; a shorter one is a
\* read failure.
C4_BadMagicIsInvalidHeaderWhenHeaderHeld ==
    /\ (Ended /\ HeaderHeld /\ ~MagicOk) => result = ResError("InvalidHeader")
    /\ (Ended /\ ~HeaderHeld) => ReadFailure
    /\ result = ResError("InvalidHeader") => HeaderHeld /\ ~MagicOk

\* A buffer with one byte of the magic altered was refused as InvalidHeader.
C4_Witness ==
    /\ result = ResError("InvalidHeader")
    /\ Cardinality({k \in 1..4 : ByteAt(i, k - 1) # GoodMagic[k]}) = 1
    /\ BufLen(i) > 16

\* -------------------------------------------------------------------------
\* C5
\* -------------------------------------------------------------------------

\* The header is valid, the buffer holds the whole TOC, and entry j has a
\* type tag that is neither the comment tag nor the image tag.
UnknownEntries ==
    IF MagicOk /\ TocAllHeld
    THEN {j \in 1..ToNat(NtocField) : ~TocIsKnown(j)}
    ELSE {}
FirstUnknown == CHOOSE j \in UnknownEntries : \A k \in UnknownEntries : j <= k

\* C5 as claimed: whenever File::parse returns on such a buffer, it returns
\* InvalidTOC.
C5_UnknownTagIsInvalidTOC ==
    (Returned /\ UnknownEntries # {}) => result = ResError("InvalidTOC")

\* C5, amended: such a buffer never yields a Document; File::parse returns
\* InvalidTOC when it reaches the first such entry, which it does unless an
\* earlier entry's chunk fails first; and no chunk decoder runs for such an
\* entry.
C5_UnknownTagStopsTheParse ==
    UnknownEntries # {} =>
        /\ result.kind # "Done"
        /\ pc \in {"chunks", "pixel_loop"} => toc_idx <= FirstUnknown
        /\ pc = "pixel_loop" => toc_idx < FirstUnknown
        /\ Len(comments) + Len(images) < FirstUnknown
        /\ (Ended /\ pc = "chunks" /\ toc_idx = FirstUnknown)
               => result = ResError("InvalidTOC")
        /\ result = ResError("InvalidTOC") => pc = "chunks" /\ toc_idx = FirstUnknown

\* An unknown tag in the second entry was refused after the first entry's
\* chunk was decoded.
C5_Witness ==
    /\ result = ResError("InvalidTOC")
    /\ toc_idx = 2
    /\ Len(comments) + Len(images) = 1

\* -------------------------------------------------------------------------
\* C6
\* -------------------------------------------------------------------------

MaxSize == FromNat(IMAGE_MAX_SIZE)

\* The image chunk at p is all in the buffer, has the expected version and
\* a width and a height below the bound.
ImgSizesOk(p) ==
    /\ ImgHeld(p)
    /\ ChunkVersion(p) = FromNat(1)
    /\ WLt(ImgWidth(p), MaxSize)
    /\ WLt(ImgHeight(p), MaxSize)
XHotInside(p) == WLt(ImgXHot(p), ImgWidth(p))
YHotInside(p) == WLt(ImgYHot(p), ImgHeight(p))

\* C6: an image chunk that is all in the buffer, with the expected version
\* and sizes below the bound, is refused with InvalidImageXHot when
\* xhot >= width, with InvalidImageYHot when xhot < width and
\* yhot >= height, and is otherwise accepted and appended to the images
\* with the hotspot it has in the file.
C6_HotspotBoundary ==
    /\ \A j \in Accepted :
          TocIsImage(j) =>
              LET p == Pos(j)
                  im == images[ImageRank(j)]
              IN /\ XHotInside(p) /\ YHotInside(p)
                 /\ im.xhot = ImgXHot(p) /\ im.yhot = ImgYHot(p)
                 /\ im.width = ImgWidth(p) /\ im.height = ImgHeight(p)
    /\ ( /\ StoppedAtEntry
         /\ TocIsImage(toc_idx)
         /\ PosInside(toc_idx)
         /\ ImgSizesOk(Pos(toc_idx)) )
       => LET p == Pos(toc_idx)
          IN /\ ~XHotInside(p) => result = ResError("InvalidImageXHot")
             /\ XHotInside(p)  => result = ResError("InvalidImageYHot")
             /\ ~(XHotInside(p) /\ YHotInside(p))

\* An image with xhot = width was refused with InvalidImageXHot.
C6_Witness ==
    /\ StoppedAtEntry
    /\ TocIsImage(toc_idx)
    /\ PosInside(toc_idx)
    /\ ImgSizesOk(Pos(toc_idx))
    /\ ImgXHot(Pos(toc_idx)) = ImgWidth(Pos(toc_idx))
    /\ ImgWidth(Pos(toc_idx)) # Zero
    /\ result = ResError("InvalidImageXHot")

\* -------------------------------------------------------------------------
\* C7
\* -------------------------------------------------------------------------

\* C7: an image whose width or height is the bound 0x7FFF (or more) is
\* never accepted, so no Document holds one, and when the chunk is all in
\* the buffer File::parse returns InvalidImageWidth or InvalidImageHeight;
\* an image with both sizes at most 0x7FFE, its hotspot inside and all its
\* pixels in the buffer is accepted.
C7_SizeBoundary ==
    /\ \A j \in Accepted :
          TocIsImage(j) =>
              LET p == Pos(j)
                  im == images[ImageRank(j)]
              IN /\ WLt(ImgWidth(p), MaxSize) /\ WLt(ImgHeight(p), MaxSize)
                 /\ im.width = ImgWidth(p) /\ im.height = ImgHeight(p)
    /\ result.kind = "Done" =>
          \A k \in 1..Len(images) :
              WLt(images[k].width, MaxSize) /\ WLt(images[k].height, MaxSize)
    /\ ( /\ StoppedAtEntry
         /\ TocIsImage(toc_idx)
         /\ PosInside(toc_idx)
         /\ ImgHeld(Pos(toc_idx))
         /\ ChunkVersion(Pos(toc_idx)) = FromNat(1) )
       => LET p == Pos(toc_idx)
          IN /\ WGe(ImgWidth(p), MaxSize) => result = ResError("InvalidImageWidth")
             /\ (WLt(ImgWidth(p), MaxSize) /\ WGe(ImgHeight(p), MaxSize))
                   => result = ResError("InvalidImageHeight")
             /\ ~( /\ WLt(ImgWidth(p), MaxSize) /\ WLt(ImgHeight(p), MaxSize)
                   /\ XHotInside(p) /\ YHotInside(p) )

\* An image whose width is the bound 0x7FFF, all of it in the buffer, was
\* refused with InvalidImageWidth.
C7_Witness ==
    /\ StoppedAtEntry
    /\ TocIsImage(toc_idx)
    /\ PosInside(toc_idx)
    /\ ImgHeld(Pos(toc_idx))
    /\ ChunkVersion(Pos(toc_idx)) = FromNat(1)
    /\ ImgWidth(Pos(toc_idx)) = MaxSize
    /\ result = ResError("InvalidImageWidth")

\* -------------------------------------------------------------------------
\* C8
\* -------------------------------------------------------------------------

\* C8: the comments are the chunks of the comment entries File::parse is
\* through with, in TOC order, and the images those of the image entries,
\* in TOC order, wherever the chunks lie in the buffer; when File::parse
\* returns a Document it is through with all ntoc entries.
C8_TocOrder ==
    pc \in {"chunks", "pixel_loop"} =>
        /\ Len(comments) = CommentRank(toc_idx - 1)
        /\ Len(images) = ImageRank(toc_idx - 1)
        /\ \A j \in Accepted :
              LET p == Pos(j)
              IN /\ TocIsComment(j) =>
                      LET c == comments[CommentRank(j)]
                      IN /\ c.chunkheader =
                              [header  |-> FileWord(p), type_ |-> ChunkType(p),
                               subtype |-> ChunkSubtype(p),
                               version |-> ChunkVersion(p)]
                         /\ c.length = CmtLength(p)
                 /\ TocIsImage(j) =>
                      LET im == images[ImageRank(j)]
                      IN /\ im.chunkheader =
                              [header  |-> FileWord(p), type_ |-> ChunkType(p),
                               subtype |-> ChunkSubtype(p),
                               version |-> ChunkVersion(p)]
                         /\ <<im.width, im.height, im.xhot, im.yhot, im.delay>> =
                              <<ImgWidth(p), ImgHeight(p), ImgXHot(p),
                                ImgYHot(p), ImgDelay(p)>>
                 /\ TocIsKnown(j)
        /\ result.kind = "Done" =>
              /\ TocAllHeld
              /\ FromNat(toc_idx - 1) = NtocField
              /\ FromNat(Len(comments) + Len(images)) = NtocField

\* A Document of two different chunks of one type, the second entry's chunk
\* lying before the first entry's in the buffer.
C8_Witness ==
    /\ result.kind = "Done"
    /\ Len(tocs) = 2
    /\ WGt(tocs[1].position, tocs[2].position)
    /\ \/ Len(images) = 2 /\ images[1] # images[2]
       \/ Len(comments) = 2 /\ comments[1] # comments[2]

\* -------------------------------------------------------------------------
\* C9
\* -------------------------------------------------------------------------

\* C9: a comment chunk that is all in the buffer and has the expected
\* version never stops the parse; its Comment keeps the length read from
\* the chunk, and its string is the payload when that is well-formed UTF-8
\* and empty when it is not.
C9_Utf8Leniency ==
    /\ \A j \in Accepted :
          TocIsComment(j) =>
              LET p == Pos(j)
                  c == comments[CommentRank(j)]
              IN /\ CmtHeld(p)
                 /\ c.length = CmtLength(p)
                 /\ Utf8Valid(CmtPayload(p)) => c.string = CmtPayload(p)
                 /\ ~Utf8Valid(CmtPayload(p)) => c.string = <<>>
    /\ ~( /\ StoppedAtEntry
          /\ TocIsComment(toc_idx)
          /\ PosInside(toc_idx)
          /\ CmtHeld(Pos(toc_idx))
          /\ ChunkVersion(Pos(toc_idx)) = FromNat(1) )

\* A Document holds a Comment whose payload is not UTF-8: its string is
\* empty and its length is the payload's.
C9_Witness ==
    /\ result.kind = "Done"
    /\ \E k \in 1..Len(comments) :
          comments[k].string = <<>> /\ comments[k].length # Zero

\* -------------------------------------------------------------------------
\* C10
\* -------------------------------------------------------------------------

\* C10: in a returned Document, every chunk's header has the type tag and the subtype of
\* the TOC entry that referred to it.
C10_ChunkHeaderMatchesToc ==
    result.kind = "Done" => \A j \in Accepted :
        LET h == IF TocIsComment(j) THEN comments[CommentRank(j)].chunkheader
                 ELSE images[ImageRank(j)].chunkheader
        IN h.type_ = TocType(j) /\ h.subtype = TocSubtype(j)

=============================================================================
